---- MODULE Spec2Model ----
(***************************************************************************)
(* Model of the catalogue pricing pipeline of pdf_extractor_robust.py:     *)
(* the rasterizer (extrair_imagens_pdf), the code scanner                  *)
(* (extrair_codigos_produtos), the price table loader (ler_excel_precos),  *)
(* the price rounder (arredondar_preco_para_terminar_em_7), the compositor *)
(* (criar_pdf_com_precos) and the orchestrator (processar_pdf_com_markup). *)
(*                                                                         *)
(* Text is a sequence of one-character strings, so that the regular        *)
(* expressions, str(), float(), join() and split() of the source are       *)
(* computed character by character.  Decimal numbers are fixed point:      *)
(* a cell value and a cost price count hundredths (Escala), a markup       *)
(* counts hundredths, a sale price counts ten-thousandths (EscalaVenda).   *)
(* The markups of the model (1.5 and 2.0) are exact binary fractions and   *)
(* the costs have two decimals, so the truncation of cost * markup is the  *)
(* same in fixed point and in the floating point of the source.            *)
(***************************************************************************)
EXTENDS Integers, Sequences, FiniteSets, TLC

VARIABLES
    doc,            \* input: the pages' embedded texts, doc[i] is page index i-1
    planilha,       \* input: the price source [abre, colunas, linhas]
    markup,         \* input: the markup, in hundredths
    pc,             \* position of the run
    page_num,       \* loop cursor of the running stage (0-based)
    imagens,        \* rasterizer: imagens_paths
    codigos,        \* scanner: codigos
    df,             \* loader: the rows left to iterate, after the header drop
    produtos_dict,  \* loader: produtos_dict
    lidos,          \* loader: what became of each iterated row (history)
    pdf,            \* compositor: the pages added to the FPDF object
    saida,          \* the output document written by pdf.output, or Nenhuma
    retorno,        \* what the called function returned, or Nenhuma
    erro,           \* the exception that left the called function, or Nenhuma
    falhas,         \* history: <<stage, page index>> whose render / get_text raised
    visitas,        \* history: <<stage, page index>> the stage's loop went through
    progresso,      \* history: the calls of progress_callback, in call order
    preco,          \* rounder: the argument (ten-thousandths)
    arredondado     \* rounder: the result, or Nenhuma

vars == <<doc, planilha, markup, pc, page_num, imagens, codigos, df,
          produtos_dict, lidos, pdf, saida, retorno, erro, falhas,
          visitas, progresso, preco, arredondado>>

Nenhuma == "nenhuma"

-----------------------------------------------------------------------------
(* Characters and text *)

Digitos == <<"0", "1", "2", "3", "4", "5", "6", "7", "8", "9">>

Minusculas == <<"a", "b", "c", "d", "e", "f", "g", "h", "i", "j", "k", "l", "m",
                "n", "o", "p", "q", "r", "s", "t", "u", "v", "w", "x", "y", "z",
                "é", "ã", "ç", "ó">>

Maiusculas == <<"A", "B", "C", "D", "E", "F", "G", "H", "I", "J", "K", "L", "M",
                "N", "O", "P", "Q", "R", "S", "T", "U", "V", "W", "X", "Y", "Z",
                "É", "Ã", "Ç", "Ó">>

Range(s) == {s[i] : i \in DOMAIN s}

DigitSet == Range(Digitos)

WordSet == Range(Digitos) \cup Range(Minusculas) \cup Range(Maiusculas) \cup {"_"}

IsDigit(c) == c \in DigitSet

\* \s of the regular expressions
IsSpace(c) == c \in {" ", "\n", "\t"}

\* \w of the regular expressions: a letter, a digit or the underscore
IsWord(c) == c \in WordSet

\* the upper case of each lower case letter
UpperMap == [c \in Range(Minusculas) |->
                Maiusculas[CHOOSE i \in DOMAIN Minusculas : Minusculas[i] = c]]

\* str.upper() of one character (also the case folding of re.IGNORECASE)
Upper(c) == IF c \in DOMAIN UpperMap THEN UpperMap[c] ELSE c

UpperStr(s) == [i \in DOMAIN s |-> Upper(s[i])]

DigitMap == [c \in DigitSet |-> (CHOOSE i \in DOMAIN Digitos : Digitos[i] = c) - 1]

DigitVal(c) == DigitMap[c]

\* str(n) of a non-negative integer
RECURSIVE NatToStr(_)
NatToStr(n) ==
    IF n < 10 THEN <<Digitos[n + 1]>>
    ELSE NatToStr(n \div 10) \o <<Digitos[(n % 10) + 1]>>

\* str(n) of an integer
IntToStr(n) == IF n < 0 THEN <<"-">> \o NatToStr(-n) ELSE NatToStr(n)

\* the value of a string of digits
RECURSIVE StrToNat(_)
StrToNat(s) ==
    IF s = <<>> THEN 0
    ELSE 10 * StrToNat(SubSeq(s, 1, Len(s) - 1)) + DigitVal(s[Len(s)])

\* whether t occurs in s at position i
OccursAt(t, s, i) ==
    /\ i + Len(t) - 1 <= Len(s)
    /\ \A k \in 1..Len(t) : s[i + k - 1] = t[k]

\* t in s
Contains(s, t) == \E i \in 1..(Len(s) + 1) : OccursAt(t, s, i)

-----------------------------------------------------------------------------
(* Fixed point *)

Escala == 100

EscalaVenda == Escala * Escala

\* int(x) of a number counted in 1/escala: truncation toward zero
Trunc(x, escala) == IF x >= 0 THEN x \div escala ELSE -((-x) \div escala)

-----------------------------------------------------------------------------
(* 4.4 Price rounder *)

\* a rounder that goes to the nearest 7 of the decade instead of the one below
Arredondar_Cima(p) ==
    LET preco_inteiro == Trunc(p, EscalaVenda)
        ultimo_digito == preco_inteiro % 10
    IN  preco_inteiro - ultimo_digito + 7

arredondar_preco_para_terminar_em_7(p) ==
    LET preco_inteiro == Trunc(p, EscalaVenda)
        ultimo_digito == preco_inteiro % 10
    IN  IF ultimo_digito = 7 THEN preco_inteiro
        ELSE IF ultimo_digito > 7 THEN preco_inteiro - (ultimo_digito - 7)
        ELSE preco_inteiro - ultimo_digito - 3

-----------------------------------------------------------------------------
(* 4.2 Code scanner: the regular expressions *)

\* the keywords of padroes, in order; each pattern is KEYWORD\s+(\d{5})
padroes == <<
    <<"C", "O", "N", "J", "U", "N", "T", "O">>,
    <<"B", "E", "R", "M", "U", "D", "A">>,
    <<"C", "A", "M", "I", "S", "A">>,
    <<"C", "A", "M", "I", "S", "E", "T", "A">>,
    <<"B", "O", "N", "E">>,
    <<"B", "O", "N", "É">>,
    <<"B", "L", "U", "S", "A">>,
    <<"S", "A", "I", "A">>,
    <<"V", "E", "S", "T", "I", "D", "O">>,
    <<"M", "A", "C", "A", "C", "Ã", "O">>,
    <<"J", "A", "Q", "U", "E", "T", "A">>,
    <<"B", "O", "D", "Y">>,
    <<"C", "A", "L", "Ç", "A">>,
    <<"L", "E", "N", "Ç", "O">>,
    <<"Ó", "C", "U", "L", "O", "S">>>>

\* the number of digits of a code, \d{5}
TamanhoCodigo == 5

\* the first index >= j of s that holds no white space (Len(s) + 1 when none)
RECURSIVE FimEspacos(_, _)
FimEspacos(s, j) ==
    IF j <= Len(s) /\ IsSpace(s[j]) THEN FimEspacos(s, j + 1) ELSE j

AllDigits(s, i, n) ==
    /\ i + n - 1 <= Len(s)
    /\ \A k \in i..(i + n - 1) : IsDigit(s[k])

\* KEYWORD\s+(\d{5}) with re.IGNORECASE matched at position i of s:
\* the index of the last character of the match, 0 when there is no match
MatchPadraoAt(kw, s, i) ==
    LET j == i + Len(kw)
        e == FimEspacos(s, j)
    IN  IF /\ j - 1 <= Len(s)
           /\ \A k \in 1..Len(kw) : Upper(s[i + k - 1]) = Upper(kw[k])
           /\ e > j
           /\ AllDigits(s, e, TamanhoCodigo)
        THEN e + TamanhoCodigo - 1
        ELSE 0

\* \b(\d{5})\b matched at position i of s
MatchGenericoAt(s, i) ==
    IF /\ AllDigits(s, i, TamanhoCodigo)
       /\ (i = 1 \/ ~IsWord(s[i - 1]))
       /\ (i + TamanhoCodigo > Len(s) \/ ~IsWord(s[i + TamanhoCodigo]))
    THEN i + TamanhoCodigo - 1
    ELSE 0

\* re.finditer: the matches from position i on, left to right, not overlapping;
\* each is [ini, fim], the first and last index of group 0
RECURSIVE FindIterPadrao(_, _, _)
FindIterPadrao(kw, s, i) ==
    IF i > Len(s) THEN <<>>
    ELSE LET f == MatchPadraoAt(kw, s, i)
         IN  IF f > 0
             THEN <<[ini |-> i, fim |-> f]>> \o FindIterPadrao(kw, s, f + 1)
             ELSE FindIterPadrao(kw, s, i + 1)

RECURSIVE FindIterGenerico(_, _)
FindIterGenerico(s, i) ==
    IF i > Len(s) THEN <<>>
    ELSE LET f == MatchGenericoAt(s, i)
         IN  IF f > 0
             THEN <<[ini |-> i, fim |-> f]>> \o FindIterGenerico(s, f + 1)
             ELSE FindIterGenerico(s, i + 1)

\* the entry appended for a match of a category pattern: group(1) is the last
\* five characters of the match, group(0) the whole match
CodigoDePadrao(s, m, p) ==
    [pagina |-> p,
     codigo |-> SubSeq(s, m.fim - TamanhoCodigo + 1, m.fim),
     texto_completo |-> SubSeq(s, m.ini, m.fim),
     posicao_y |-> p]

CodigoGenerico(s, m, p) ==
    [pagina |-> p,
     codigo |-> SubSeq(s, m.ini, m.fim),
     texto_completo |-> SubSeq(s, m.ini, m.fim),
     posicao_y |-> p]

\* the loop over padroes from pattern k on: every match of every pattern
RECURSIVE CodigosDosPadroes(_, _, _)
CodigosDosPadroes(s, p, k) ==
    IF k > Len(padroes) THEN <<>>
    ELSE LET ms == FindIterPadrao(padroes[k], s, 1)
         IN  [i \in 1..Len(ms) |-> CodigoDePadrao(s, ms[i], p)]
             \o CodigosDosPadroes(s, p, k + 1)

CodigosGenericos(s, p) ==
    LET ms == FindIterGenerico(s, 1)
    IN  [i \in 1..Len(ms) |-> CodigoGenerico(s, ms[i], p)]

\* a fallback test that looks at the whole list instead of the page's entries
SemCodigoNaPagina_Lista(cs, p) == cs = <<>>

\* not any(codigo['pagina'] == page_num for codigo in codigos)
SemCodigoNaPagina(cs, p) == ~\E i \in DOMAIN cs : cs[i].pagina = p

\* the body of the try block of one page: codigos after the page is scanned
ScanPagina(cs, s, p) ==
    LET comPadroes == cs \o CodigosDosPadroes(s, p, 1)
    IN  IF SemCodigoNaPagina(comPadroes, p)
        THEN comPadroes \o CodigosGenericos(s, p)
        ELSE comPadroes

-----------------------------------------------------------------------------
(* Sample inputs: page texts *)

\* 'CATALOGO 2026': no code at all
T_capa ==
    <<"C", "A", "T", "A", "L", "O", "G", "O", " ", "2", "0", "2", "6">>

\* 'CAMISA 84831': one category match
T_camisa ==
    <<"C", "A", "M", "I", "S", "A", " ", "8", "4", "8", "3", "1">>

\* 'Ref: 12345 extra': only a standalone number
T_ref ==
    <<"R", "e", "f", ":", " ", "1", "2", "3", "4", "5", " ", "e", "x", "t", "r", "a">>

\* 'BONE 82969<newline>CAMISA 84831': two categories, in the reverse of the order of padroes
T_dois ==
    <<"B", "O", "N", "E", " ", "8", "2", "9", "6", "9", "\n", "C", "A", "M", "I", "S", "A", " ", "8", "4", "8", "3", "1">>

\* 'bone 82969 ref 12345': a category match in lower case and a standalone number
T_misto ==
    <<"b", "o", "n", "e", " ", "8", "2", "9", "6", "9", " ", "r", "e", "f", " ", "1", "2", "3", "4", "5">>

\* 'ÓCULOS 8585827': a category keyword before a number of seven digits
T_longo ==
    <<"Ó", "C", "U", "L", "O", "S", " ", "8", "5", "8", "5", "8", "2", "7">>

\* 'REF12345': five digits glued to a word
T_colado ==
    <<"R", "E", "F", "1", "2", "3", "4", "5">>

Textos == {T_capa, T_camisa, T_ref, T_dois, T_misto, T_longo, T_colado}

\* the most pages a document of the model has
MaxPaginas == 3

\* the sequences over S of length 0..n
SeqAte(S, n) == UNION {[1..k -> S] : k \in 0..n}

Documentos == SeqAte(Textos, MaxPaginas)

\* the page texts of the documents of the whole run
TextosPipeline == {T_dois, T_ref}

DocumentosPipeline == SeqAte(TextosPipeline, MaxPaginas)

-----------------------------------------------------------------------------
(* Initial values of what a run builds *)

DictVazio == [k \in {} |-> Nenhuma]

InitRun ==
    /\ page_num = 0
    /\ imagens = <<>>
    /\ codigos = <<>>
    /\ df = <<>>
    /\ produtos_dict = DictVazio
    /\ lidos = <<>>
    /\ pdf = <<>>
    /\ saida = Nenhuma
    /\ retorno = Nenhuma
    /\ erro = Nenhuma
    /\ falhas = {}
    /\ visitas = {}
    /\ progresso = <<>>
    /\ arredondado = Nenhuma

entradas == <<doc, planilha, markup>>

rounder == <<preco, arredondado>>

historia == <<falhas, visitas>>

-----------------------------------------------------------------------------
(* The progress callback.  A fraction is the exact rational num / den of the
   source's expression (den > 0), so that fractions are compared without the
   rounding of a fixed scale. *)

Fracao(n, d) == [num |-> n, den |-> d]

\* a < b and a <= b of two fractions
Menor(a, b) == a.num * b.den < b.num * a.den

MenorIgual(a, b) == a.num * b.den <= b.num * a.den

\* progress_callback(message, fracao), called by quem
Reporta(quem, fracao) == Append(progresso, [quem |-> quem, fracao |-> fracao])

\* (page_num / total_pages) * 0.3
FracaoRasterizer(p, total) == Fracao(3 * p, 10 * total)

\* a scanner whose range starts at 0.2
FracaoScanner_Base2(p, total) == Fracao(2 * total + 2 * p, 10 * total)

\* 0.3 + (page_num / total_pages) * 0.2
FracaoScanner(p, total) == Fracao(3 * total + 2 * p, 10 * total)

\* 0.5
FracaoLoader == Fracao(5, 10)

\* 0.7 + (idx / total_imagens) * 0.3
FracaoCompositor(idx, total) == Fracao(7 * total + 3 * idx, 10 * total)

\* the fractions of the orchestrator: 0.05, 0.35, 0.55, 0.7 and 1.0
FracaoRasterizar == Fracao(5, 100)

FracaoEscanear == Fracao(35, 100)

FracaoLerExcel == Fracao(55, 100)

FracaoCompor == Fracao(7, 10)

FracaoConcluido == Fracao(1, 1)

-----------------------------------------------------------------------------
(* 4.1 Rasterizer: extrair_imagens_pdf *)

\* imagens_paths = [] and fitz.open, which may raise
RasterAbrir ==
    /\ pc = "raster_abrir"
    /\ imagens' = <<>>
    /\ page_num' = 0
    /\ \E abre \in BOOLEAN :
          IF abre
          THEN pc' = "raster_loop" /\ erro' = erro
          ELSE pc' = "excecao" /\ erro' = "Erro ao abrir o arquivo PDF"
    /\ UNCHANGED <<entradas, codigos, df, produtos_dict, lidos, pdf, saida,
                   retorno, progresso, historia, rounder>>

\* one iteration of the loop over the pages; get_pixmap or save may raise, and
\* the except clause goes on with the next page
RasterPagina ==
    /\ pc = "raster_loop"
    /\ page_num < Len(doc)
    /\ \E renderiza \in BOOLEAN :
          IF renderiza
          THEN /\ imagens' = Append(imagens, [pagina |-> page_num,
                                              caminho |-> <<"page", page_num + 1>>])
               /\ falhas' = falhas
          ELSE /\ imagens' = imagens
               /\ falhas' = falhas \cup {<<"imagem", page_num>>}
    /\ visitas' = visitas \cup {<<"imagem", page_num>>}
    /\ page_num' = page_num + 1
    /\ progresso' = Reporta("rasterizer", FracaoRasterizer(page_num, Len(doc)))
    /\ UNCHANGED <<entradas, pc, codigos, df, produtos_dict, lidos, pdf, saida,
                   retorno, erro, rounder>>

\* doc.close() and return imagens_paths
RasterFim ==
    /\ pc = "raster_loop"
    /\ page_num = Len(doc)
    /\ pc' = "raster_ret"
    /\ retorno' = imagens
    /\ UNCHANGED <<entradas, page_num, imagens, codigos, df, produtos_dict,
                   lidos, pdf, saida, erro, progresso, historia, rounder>>

-----------------------------------------------------------------------------
(* 4.2 Code scanner: extrair_codigos_produtos *)

ErroAbrirCodigos == "Erro ao abrir o arquivo PDF para extração de códigos"

\* codigos = [] and fitz.open, which may raise
ScannerAbrir ==
    /\ pc = "scan_abrir"
    /\ codigos' = <<>>
    /\ page_num' = 0
    /\ \E abre \in BOOLEAN :
          IF abre
          THEN pc' = "scan_loop" /\ erro' = erro
          ELSE pc' = "excecao" /\ erro' = ErroAbrirCodigos
    /\ UNCHANGED <<entradas, imagens, df, produtos_dict, lidos, pdf, saida,
                   retorno, progresso, historia, rounder>>

\* a loop with no except clause of its own: a get_text that raises leaves the
\* function
ScannerPagina_Aborta ==
    /\ pc = "scan_loop"
    /\ page_num < Len(doc)
    /\ \E extrai \in BOOLEAN :
          IF extrai
          THEN /\ codigos' = ScanPagina(codigos, doc[page_num + 1], page_num)
               /\ falhas' = falhas
               /\ page_num' = page_num + 1
               /\ UNCHANGED <<pc, erro>>
          ELSE /\ codigos' = codigos
               /\ falhas' = falhas \cup {<<"texto", page_num>>}
               /\ page_num' = page_num
               /\ pc' = "excecao"
               /\ erro' = "get_text"
    /\ visitas' = visitas \cup {<<"texto", page_num>>}
    /\ progresso' = Reporta("scanner", FracaoScanner(page_num, Len(doc)))
    /\ UNCHANGED <<entradas, imagens, df, produtos_dict, lidos, pdf, saida,
                   retorno, rounder>>

\* one iteration of the loop over the pages; get_text may raise, and the
\* except clause goes on with the next page
ScannerPagina ==
    /\ pc = "scan_loop"
    /\ page_num < Len(doc)
    /\ \E extrai \in BOOLEAN :
          IF extrai
          THEN /\ codigos' = ScanPagina(codigos, doc[page_num + 1], page_num)
               /\ falhas' = falhas
          ELSE /\ codigos' = codigos
               /\ falhas' = falhas \cup {<<"texto", page_num>>}
    /\ visitas' = visitas \cup {<<"texto", page_num>>}
    /\ page_num' = page_num + 1
    /\ progresso' = Reporta("scanner", FracaoScanner(page_num, Len(doc)))
    /\ UNCHANGED <<entradas, pc, imagens, df, produtos_dict, lidos, pdf, saida,
                   retorno, erro, rounder>>

\* doc.close() and return codigos
ScannerFim ==
    /\ pc = "scan_loop"
    /\ page_num = Len(doc)
    /\ pc' = "scan_ret"
    /\ retorno' = codigos
    /\ UNCHANGED <<entradas, page_num, imagens, codigos, df, produtos_dict,
                   lidos, pdf, saida, erro, progresso, historia, rounder>>

-----------------------------------------------------------------------------
(* 4.4 Price rounder, called by itself *)

\* the call of arredondar_preco_para_terminar_em_7(preco)
Arredondar ==
    /\ pc = "round_call"
    /\ arredondado' = arredondar_preco_para_terminar_em_7(preco)
    /\ pc' = "round_ret"
    /\ UNCHANGED <<entradas, page_num, imagens, codigos, df, produtos_dict,
                   lidos, pdf, saida, retorno, erro, progresso, historia,
                   preco>>

-----------------------------------------------------------------------------
(* 4.3 Price table loader: cells and conversions *)

\* A cell of the table is [t |-> "num", v |-> hundredths], [t |-> "txt", s |-> text]
\* or [t |-> "nan"] (an empty cell).
Num(v) == [t |-> "num", v |-> v]

Txt(s) == [t |-> "txt", s |-> s]

NaN == [t |-> "nan"]

\* pd.notna
NotNa(cell) == cell.t # "nan"

\* isinstance(cell, str)
IsStr(cell) == cell.t = "txt"

\* str.isdigit(): not empty and digits only
IsDigitStr(s) == s # <<>> /\ \A i \in DOMAIN s : IsDigit(s[i])

\* str.replace(',', '.')
ReplaceComma(s) == [i \in DOMAIN s |-> IF s[i] = "," THEN "." ELSE s[i]]

\* the index of the first c in s, 0 when there is none
RECURSIVE IndexOf(_, _, _)
IndexOf(s, c, i) ==
    IF i > Len(s) THEN 0 ELSE IF s[i] = c THEN i ELSE IndexOf(s, c, i + 1)

\* str.strip()
RECURSIVE Strip(_)
Strip(s) ==
    IF s = <<>> THEN s
    ELSE IF IsSpace(s[1]) THEN Strip(Tail(s))
    ELSE IF IsSpace(s[Len(s)]) THEN Strip(SubSeq(s, 1, Len(s) - 1))
    ELSE s

\* the hundredths counted by the digits after the decimal point (the texts of
\* the model have at most two)
Centesimos(ds) ==
    IF Len(ds) = 0 THEN 0
    ELSE IF Len(ds) = 1 THEN 10 * DigitVal(ds[1])
    ELSE 10 * DigitVal(ds[1]) + DigitVal(ds[2])

\* float(s) of a text: white space around it, a sign, digits with at most one
\* point; [ok |-> FALSE] stands for ValueError
ParseFloat(s0) ==
    LET s == Strip(s0)
        neg == s # <<>> /\ s[1] = "-"
        u == IF s # <<>> /\ s[1] \in {"-", "+"} THEN Tail(s) ELSE s
        dot == IndexOf(u, ".", 1)
        ip == IF dot = 0 THEN u ELSE SubSeq(u, 1, dot - 1)
        fp == IF dot = 0 THEN <<>> ELSE SubSeq(u, dot + 1, Len(u))
        digitsOnly(x) == \A i \in DOMAIN x : IsDigit(x[i])
    IN  IF digitsOnly(ip) /\ digitsOnly(fp) /\ Len(ip) + Len(fp) > 0
        THEN [ok |-> TRUE,
              v |-> (IF neg THEN -1 ELSE 1) * (Escala * StrToNat(ip) + Centesimos(fp))]
        ELSE [ok |-> FALSE]

\* re.search(r'(\d+)', s).group(1): the first run of digits, <<>> when the
\* search finds nothing
RECURSIVE FirstDigits(_)
FirstDigits(s) ==
    IF s = <<>> THEN <<>>
    ELSE IF IsDigit(s[1])
         THEN LET RECURSIVE Run(_)
                  Run(x) == IF x # <<>> /\ IsDigit(x[1]) THEN <<x[1]>> \o Run(Tail(x)) ELSE <<>>
              IN  Run(s)
         ELSE FirstDigits(Tail(s))

\* str(row['tamanho']) if pd.notna(row['tamanho']) else "" (the sizes of the
\* model are texts or empty cells)
TamanhoStr(cell) == IF cell.t = "nan" THEN <<>> ELSE cell.s

VALOR == <<"V", "A", "L", "O", "R">>

\* the cost price of a row: float(str.replace(',', '.')) of a text, float() of
\* a number
PrecoCusto(cell) ==
    IF IsStr(cell) THEN ParseFloat(ReplaceComma(cell.s)) ELSE [ok |-> TRUE, v |-> cell.v]

\* the code of a row: str(int(ref)) of a number, the first run of digits of a
\* text, <<>> when the text holds no digit
Codigo(cell) ==
    IF cell.t = "num" THEN IntToStr(Trunc(cell.v, Escala)) ELSE FirstDigits(cell.s)

\* what the body of the loop does with one row: the code the row is stored
\* under, or why it is skipped
Destino(row) ==
    IF ~(NotNa(row.referencia) /\ NotNa(row.preco_custo)) THEN "vazia"
    ELSE IF IsStr(row.preco_custo) /\ Contains(UpperStr(row.preco_custo.s), VALOR) THEN "cabecalho"
    ELSE IF ~PrecoCusto(row.preco_custo).ok THEN "ValueError"
    ELSE IF row.referencia.t = "txt" /\ FirstDigits(row.referencia.s) = <<>> THEN "sem_codigo"
    ELSE "aceita"

\* a Price Record that holds the rounded sale price
Registro_Arredondado(row, mk) ==
    [tamanho |-> TamanhoStr(row.tamanho),
     preco_custo |-> PrecoCusto(row.preco_custo).v,
     preco_venda |->
         EscalaVenda
         * arredondar_preco_para_terminar_em_7(PrecoCusto(row.preco_custo).v * mk)]

\* the Price Record of an accepted row
Registro(row, mk) ==
    [tamanho |-> TamanhoStr(row.tamanho),
     preco_custo |-> PrecoCusto(row.preco_custo).v,
     preco_venda |-> PrecoCusto(row.preco_custo).v * mk]

\* a store that keeps the record a code already has
Guardar_Primeiro(d, k, r) ==
    IF k \in DOMAIN d THEN d
    ELSE [x \in DOMAIN d \cup {k} |-> IF x = k THEN r ELSE d[x]]

\* produtos_dict[codigo] = {...}
Guardar(d, k, r) == [x \in DOMAIN d \cup {k} |-> IF x = k THEN r ELSE d[x]]

\* isinstance(df['referencia'].iloc[0], str) and not df['referencia'].iloc[0].isdigit()
\* (iloc[0] raises IndexError on a table with no row: the caller tests for it)
TemCabecalho(linhas) ==
    /\ IsStr(linhas[1].referencia)
    /\ ~IsDigitStr(linhas[1].referencia.s)

-----------------------------------------------------------------------------
(* 4.3 Price table loader: ler_excel_precos *)

ErroExcel == "Erro ao ler o arquivo Excel"

\* pd.read_excel, the test of the columns, the drop of the header row; every
\* exception raised here is caught by the outer except and raised again
LoaderAbrir ==
    /\ pc = "excel_abrir"
    /\ IF ~planilha.abre
       THEN pc' = "excecao" /\ erro' = ErroExcel /\ UNCHANGED <<df, produtos_dict>>
       ELSE IF planilha.colunas < 3
       THEN pc' = "excecao" /\ erro' = ErroExcel /\ UNCHANGED <<df, produtos_dict>>
       ELSE IF planilha.linhas = <<>>
       THEN pc' = "excecao" /\ erro' = ErroExcel /\ UNCHANGED <<df, produtos_dict>>
       ELSE /\ df' = IF TemCabecalho(planilha.linhas)
                     THEN Tail(planilha.linhas) ELSE planilha.linhas
            /\ produtos_dict' = DictVazio
            /\ pc' = "excel_loop"
            /\ erro' = erro
    /\ progresso' = Reporta("loader", FracaoLoader)
    /\ UNCHANGED <<entradas, page_num, imagens, codigos, lidos, pdf, saida,
                   retorno, historia, rounder>>

\* one iteration of df.iterrows()
LoaderLinha ==
    /\ pc = "excel_loop"
    /\ df # <<>>
    /\ LET row == Head(df)
           dest == Destino(row)
       IN  /\ produtos_dict' =
                 IF dest = "aceita"
                 THEN Guardar(produtos_dict, Codigo(row.referencia), Registro(row, markup))
                 ELSE produtos_dict
           /\ lidos' = Append(lidos, [linha |-> row, destino |-> dest])
    /\ df' = Tail(df)
    /\ UNCHANGED <<entradas, pc, page_num, imagens, codigos, pdf, saida,
                   retorno, erro, progresso, historia, rounder>>

\* return produtos_dict
LoaderFim ==
    /\ pc = "excel_loop"
    /\ df = <<>>
    /\ pc' = "excel_ret"
    /\ retorno' = produtos_dict
    /\ UNCHANGED <<entradas, page_num, imagens, codigos, df, produtos_dict,
                   lidos, pdf, saida, erro, progresso, historia, rounder>>

-----------------------------------------------------------------------------
(* Sample inputs: rows of the price table *)

Linha(r, t, c) == [referencia |-> r, tamanho |-> t, preco_custo |-> c]

\* a numeric reference
L_camisa ==
    Linha(Num(8483100),
          Txt(<<"P">>),
          Num(1990))

\* the same code out of a text, a cost with a comma, no size
L_camisa2 ==
    Linha(Txt(<<"R", "E", "F", " ", "8", "4", "8", "3", "1">>),
          NaN,
          Txt(<<"2", "5", ",", "5", "0">>))

\* another code
L_bone ==
    Linha(Num(8296900),
          Txt(<<"M">>),
          Num(1990))

\* a cost that is no number
L_abc ==
    Linha(Txt(<<"8", "4", "8", "3", "1">>),
          Txt(<<"G">>),
          Txt(<<"a", "b", "c">>))

\* a header row
L_cabecalho ==
    Linha(Txt(<<"R", "e", "f", "e", "r", "e", "n", "c", "i", "a">>),
          Txt(<<"T", "a", "m", "a", "n", "h", "o">>),
          Txt(<<"V", "a", "l", "o", "r">>))

\* no reference
L_vazia ==
    Linha(NaN,
          Txt(<<"P">>),
          Num(1000))

\* a textual reference with no digit
L_semcodigo ==
    Linha(Txt(<<"s", "e", "m", " ", "c", "o", "d", "i", "g", "o">>),
          Txt(<<"P">>),
          Num(1000))

\* a numeric reference with a fraction, a cost whose sale price is below 7
L_fracao ==
    Linha(Num(1234570),
          Txt(<<"U">>),
          Num(300))

\* a negative numeric reference with a fraction (a cell of a column that also
\* holds texts or empty cells reaches the loop as a Python int or float)
L_negativa ==
    Linha(Num(-1234570),
          Txt(<<"P">>),
          Num(1000))

Linhas ==
    {L_camisa, L_camisa2, L_bone, L_abc, L_cabecalho, L_vazia, L_semcodigo,
     L_fracao, L_negativa}

\* the most rows a price table of the model has
MaxLinhas == 3

\* a source that cannot be opened, one with two columns, and every table of
\* three columns with 0..MaxLinhas rows
Planilhas ==
    {[abre |-> FALSE, colunas |-> 3, linhas |-> <<>>],
     [abre |-> TRUE, colunas |-> 2, linhas |-> <<>>]}
    \cup {[abre |-> TRUE, colunas |-> 3, linhas |-> ls] : ls \in SeqAte(Linhas, MaxLinhas)}

Markups == {150, 200}

\* the price sources of the whole run
PlanilhasPipeline ==
    {[abre |-> FALSE, colunas |-> 3, linhas |-> <<>>],
     [abre |-> TRUE, colunas |-> 2, linhas |-> <<>>],
     [abre |-> TRUE, colunas |-> 3, linhas |-> <<>>],
     [abre |-> TRUE, colunas |-> 3, linhas |-> <<L_cabecalho, L_camisa, L_bone>>],
     [abre |-> TRUE, colunas |-> 3, linhas |-> <<L_fracao>>],
     [abre |-> TRUE, colunas |-> 3, linhas |-> <<L_abc>>]}

-----------------------------------------------------------------------------
(* 4.5 Compositor: criar_pdf_com_precos *)

\* an order of the pages that puts the highest page index first
RECURSIVE Sorted_Desc(_)
Sorted_Desc(imgs) ==
    IF imgs = <<>> THEN <<>>
    ELSE LET m == CHOOSE i \in DOMAIN imgs :
                      /\ \A j \in DOMAIN imgs : imgs[j].pagina <= imgs[i].pagina
                      /\ \A j \in DOMAIN imgs : imgs[j].pagina = imgs[i].pagina => j >= i
         IN  <<imgs[m]>>
             \o Sorted_Desc([k \in 1..(Len(imgs) - 1) |-> IF k < m THEN imgs[k] ELSE imgs[k + 1]])

\* sorted(imagens, key=lambda x: x['pagina']): ascending and stable
RECURSIVE Sorted(_)
Sorted(imgs) ==
    IF imgs = <<>> THEN <<>>
    ELSE LET m == CHOOSE i \in DOMAIN imgs :
                      /\ \A j \in DOMAIN imgs : imgs[j].pagina >= imgs[i].pagina
                      /\ \A j \in DOMAIN imgs : imgs[j].pagina = imgs[i].pagina => j >= i
         IN  <<imgs[m]>>
             \o Sorted([k \in 1..(Len(imgs) - 1) |-> IF k < m THEN imgs[k] ELSE imgs[k + 1]])

\* [c for c in codigos if c['pagina'] == page_num]
CodigosPagina(cs, p) ==
    LET Test(c) == c.pagina = p IN SelectSeq(cs, Test)

\* a label that carries the sale price as it is stored, truncated but not
\* rounded to a 7
TextoPreco_SemArredondar(c, d) ==
    c.texto_completo \o <<" ", "-", " ", "R", "$", " ">>
        \o IntToStr(Trunc(d[c.codigo].preco_venda, EscalaVenda))

\* f"{codigo_info['texto_completo']} - R$ {preco_arredondado}"
TextoPreco(c, d) ==
    c.texto_completo \o <<" ", "-", " ", "R", "$", " ">>
        \o IntToStr(arredondar_preco_para_terminar_em_7(d[c.codigo].preco_venda))

\* the loop that builds textos_precos: a label for every entry whose code is
\* a key of produtos_dict
RECURSIVE TextosPrecos(_, _)
TextosPrecos(cs, d) ==
    IF cs = <<>> THEN <<>>
    ELSE (IF Head(cs).codigo \in DOMAIN d THEN <<TextoPreco(Head(cs), d)>> ELSE <<>>)
         \o TextosPrecos(Tail(cs), d)

Separador == <<" ", " ", " ", "|", " ", " ", " ">>

\* Separador.join(ts)
RECURSIVE Join(_)
Join(ts) ==
    IF ts = <<>> THEN <<>>
    ELSE IF Len(ts) = 1 THEN ts[1]
    ELSE ts[1] \o Separador \o Join(Tail(ts))

\* s.split('|')
RECURSIVE Split(_)
Split(s) ==
    LET i == IndexOf(s, "|", 1)
    IN  IF i = 0 THEN <<s>>
        ELSE <<SubSeq(s, 1, i - 1)>> \o Split(SubSeq(s, i + 1, Len(s)))

\* the labels given to the page: none on the cover and on a page with no entry
LabelsDaPagina(cs, d, p) ==
    IF CodigosPagina(cs, p) # <<>> /\ p > 0
    THEN TextosPrecos(CodigosPagina(cs, p), d)
    ELSE <<>>

\* the calls of pdf.cell of the fallback when the call for part f raises
\* (f = Len(partes) + 1: no call raises): the parts before f that are not
\* blank, each at its own line; the except clause is outside the loop, so the
\* parts after f are not drawn
Alternativa(partes, f) ==
    LET Test(l) == l.texto # <<>>
    IN  SelectSeq([i \in 1..(IF f <= Len(partes) THEN f - 1 ELSE Len(partes)) |->
                      [texto |-> Strip(partes[i]), dy |-> (i - 1) * 40]], Test)

\* whether the cover gets a band: the test is page_num > 0
ComTarja_Todas(p) == TRUE

ComTarja(p) == p > 0

\* the exception of adicionar_tarja_cinza, as the outer except clause raises it
ErroTarja == "Erro ao criar PDF com preços: Erro ao adicionar tarja à imagem"

\* FPDF(), the font, total_imagens
CompositorInicio ==
    /\ pc = "comp_abrir"
    /\ pdf' = <<>>
    /\ page_num' = 0
    /\ pc' = "comp_loop"
    /\ UNCHANGED <<entradas, imagens, codigos, df, produtos_dict, lidos,
                   saida, retorno, erro, progresso, historia, rounder>>

\* one iteration of the loop over sorted(imagens); page_num of the model is the
\* idx of the source.  adicionar_tarja_cinza may raise, which ends the function.
\* pdf.multi_cell may raise, and then the fallback draws the parts with
\* pdf.cell until one raises.  A page of pdf records the joined text given to
\* multi_cell (texto), which call drew (modo), the part whose pdf.cell raised
\* (falhou, 0 for none) and the texts drawn, each with its offset below y_pos.
CompositorPagina ==
    /\ pc = "comp_loop"
    /\ page_num < Len(imagens)
    /\ LET img_info == Sorted(imagens)[page_num + 1]
           p == img_info.pagina
           textos_precos == LabelsDaPagina(codigos, produtos_dict, p)
           texto_completo == Join(textos_precos)
           partes_texto == Split(texto_completo)
           pagina(modo, f, desenhos) ==
               [pagina |-> p, tarja |-> ComTarja(p), texto |-> texto_completo,
                modo |-> modo, falhou |-> f, desenhos |-> desenhos]
       IN  \E pinta \in BOOLEAN :
              IF ComTarja(p) /\ ~pinta
              THEN /\ pc' = "excecao"
                   /\ erro' = ErroTarja
                   /\ UNCHANGED <<pdf, page_num>>
              ELSE /\ UNCHANGED <<pc, erro>>
                   /\ page_num' = page_num + 1
                   /\ IF textos_precos = <<>>
                      THEN pdf' = Append(pdf, pagina("sem_texto", 0, <<>>))
                      ELSE \/ pdf' = Append(pdf, pagina("multi_cell", 0,
                                                <<[texto |-> texto_completo, dy |-> 0]>>))
                           \/ \E f \in 1..(Len(partes_texto) + 1) :
                                 pdf' = Append(pdf, pagina(
                                     "alternativa",
                                     IF f <= Len(partes_texto) THEN f ELSE 0,
                                     Alternativa(partes_texto, f)))
    /\ progresso' = Reporta("compositor", FracaoCompositor(page_num, Len(imagens)))
    /\ UNCHANGED <<entradas, imagens, codigos, df, produtos_dict, lidos, saida,
                   retorno, historia, rounder>>

\* pdf.output(output_path) and return output_path
CompositorFim ==
    /\ pc = "comp_loop"
    /\ page_num = Len(imagens)
    /\ saida' = pdf
    /\ retorno' = "output_path"
    /\ pc' = "comp_ret"
    /\ UNCHANGED <<entradas, page_num, imagens, codigos, df, produtos_dict,
                   lidos, pdf, erro, progresso, historia, rounder>>

-----------------------------------------------------------------------------
(* 4.6 Orchestrator: processar_pdf_com_markup.  A stage that raises leaves
   pc = "excecao" and the exception in erro. *)

\* 1. imagens = extrair_imagens_pdf(...)
OrqRasterizar ==
    /\ pc = "inicio"
    /\ pc' = "raster_abrir"
    /\ progresso' = Reporta("orquestrador", FracaoRasterizar)
    /\ UNCHANGED <<entradas, page_num, imagens, codigos, df, produtos_dict,
                   lidos, pdf, saida, retorno, erro, historia, rounder>>

\* 2. codigos = extrair_codigos_produtos(...)
OrqEscanear ==
    /\ pc = "raster_ret"
    /\ pc' = "scan_abrir"
    /\ progresso' = Reporta("orquestrador", FracaoEscanear)
    /\ UNCHANGED <<entradas, page_num, imagens, codigos, df, produtos_dict,
                   lidos, pdf, saida, retorno, erro, historia, rounder>>

\* an orchestrator that goes on to the compositor without the price table
OrqLerExcel_Pula ==
    /\ pc = "scan_ret"
    /\ pc' = "comp_abrir"
    /\ UNCHANGED <<entradas, page_num, imagens, codigos, df, produtos_dict,
                   lidos, pdf, saida, retorno, erro, progresso, historia,
                   rounder>>

\* 3. produtos_dict = ler_excel_precos(...)
OrqLerExcel ==
    /\ pc = "scan_ret"
    /\ pc' = "excel_abrir"
    /\ progresso' = Reporta("orquestrador", FracaoLerExcel)
    /\ UNCHANGED <<entradas, page_num, imagens, codigos, df, produtos_dict,
                   lidos, pdf, saida, retorno, erro, historia, rounder>>

\* 4. criar_pdf_com_precos(...)
OrqCompor ==
    /\ pc = "excel_ret"
    /\ pc' = "comp_abrir"
    /\ progresso' = Reporta("orquestrador", FracaoCompor)
    /\ UNCHANGED <<entradas, page_num, imagens, codigos, df, produtos_dict,
                   lidos, pdf, saida, retorno, erro, historia, rounder>>

\* a count of the entries of the pages that were rasterized only
ProdutosProcessados_Emitidos(cs, d, imgs) ==
    LET Test(c) == c.codigo \in DOMAIN d /\ \E i \in DOMAIN imgs : imgs[i].pagina = c.pagina
    IN  Len(SelectSeq(cs, Test))

\* sum(1 for c in codigos if c['codigo'] in produtos_dict)
ProdutosProcessados(cs, d, imgs) ==
    LET Test(c) == c.codigo \in DOMAIN d IN Len(SelectSeq(cs, Test))

\* the count and return produtos_processados
OrqRetornar ==
    /\ pc = "comp_ret"
    /\ retorno' = ProdutosProcessados(codigos, produtos_dict, imagens)
    /\ pc' = "fim"
    /\ progresso' = Reporta("orquestrador", FracaoConcluido)
    /\ UNCHANGED <<entradas, page_num, imagens, codigos, df, produtos_dict,
                   lidos, pdf, saida, erro, historia, rounder>>

\* except Exception: print and raise, which hands the exception to the caller
OrqExcept ==
    /\ pc = "excecao"
    /\ pc' = "erro"
    /\ UNCHANGED <<entradas, page_num, imagens, codigos, df, produtos_dict,
                   lidos, pdf, saida, retorno, erro, progresso, historia,
                   rounder>>

-----------------------------------------------------------------------------
(* Specifications *)

PlanilhaNenhuma == [abre |-> FALSE, colunas |-> 0, linhas |-> <<>>]

\* the scanner called by itself on any document
InitScan ==
    /\ doc \in Documentos
    /\ planilha = PlanilhaNenhuma
    /\ markup = 200
    /\ pc = "scan_abrir"
    /\ preco = 0
    /\ InitRun

\* the loader called by itself on any price source
InitLoad ==
    /\ doc = <<>>
    /\ planilha \in Planilhas
    /\ markup \in Markups
    /\ pc = "excel_abrir"
    /\ preco = 0
    /\ InitRun

NextLoad == LoaderAbrir \/ LoaderLinha \/ LoaderFim

SpecLoad == InitLoad /\ [][NextLoad]_vars

NextScan == ScannerAbrir \/ ScannerPagina \/ ScannerFim

SpecScan == InitScan /\ [][NextScan]_vars


\* the largest integer part of a price given to the rounder by itself
MaxPrecoInteiro == 30

\* the fractional parts of those prices, in ten-thousandths
Fracoes == {0, 1, 5000, 8000, 9999}

\* the rounder called by itself on any non-negative price
InitRound ==
    /\ doc = <<>>
    /\ planilha = PlanilhaNenhuma
    /\ markup = 200
    /\ pc = "round_call"
    /\ InitRun
    /\ \E u \in 0..MaxPrecoInteiro, f \in Fracoes : preco = u * EscalaVenda + f

NextRound == Arredondar

SpecRound == InitRound /\ [][NextRound]_vars

\* the whole run: processar_pdf_com_markup on a document and a price source
Init ==
    /\ doc \in DocumentosPipeline
    /\ planilha \in PlanilhasPipeline
    /\ markup = 200
    /\ pc = "inicio"
    /\ preco = 0
    /\ InitRun

Next ==
    \/ OrqRasterizar \/ RasterAbrir \/ RasterPagina \/ RasterFim
    \/ OrqEscanear \/ ScannerAbrir \/ ScannerPagina \/ ScannerFim
    \/ OrqLerExcel \/ LoaderAbrir \/ LoaderLinha \/ LoaderFim
    \/ OrqCompor \/ CompositorInicio \/ CompositorPagina \/ CompositorFim
    \/ OrqRetornar \/ OrqExcept

Spec == Init /\ [][Next]_vars

-----------------------------------------------------------------------------
(* Claims *)

\* floor(v) of a price counted in ten-thousandths
Floor(v) == v \div EscalaVenda

\* C1: for every non-negative v the rounder returns an integer r with
\* r mod 10 = 7, r <= floor(v) and r > floor(v) - 10: it never rounds up,
\* also for the truncated values 0..6, where r is negative.
C1_RoundingLaw ==
    pc = "round_ret" =>
        /\ arredondado \in Int
        /\ arredondado % 10 = 7
        /\ arredondado <= Floor(preco)
        /\ arredondado > Floor(preco) - 10

\* a price with a fraction whose truncated value is below 7 was rounded, to a
\* negative number
C1_Witness ==
    /\ pc = "round_ret"
    /\ preco = 3 * EscalaVenda + 5000
    /\ arredondado = -3

\* the entries of cs for page p, in the order of the list
DaPagina(cs, p) ==
    LET Test(c) == c.pagina = p IN SelectSeq(cs, Test)

\* an entry made by a category pattern holds the keyword in its matched text
DeCategoria(cs) ==
    LET Test(c) == c.texto_completo # c.codigo IN SelectSeq(cs, Test)

DoGenerico(cs) ==
    LET Test(c) == c.texto_completo = c.codigo IN SelectSeq(cs, Test)

\* the places of a text where some category pattern matches: <<k, i, f>> for
\* pattern k matching from index i to index f
LugaresDeCategoria(s) ==
    {<<k, i, MatchPadraoAt(padroes[k], s, i)>> : k \in DOMAIN padroes, i \in DOMAIN s}
        \ {<<k, i, 0>> : k \in DOMAIN padroes, i \in DOMAIN s}

\* the places of a text where the generic pattern matches
LugaresGenericos(s) == {i \in DOMAIN s : MatchGenericoAt(s, i) > 0}

\* for each sample text: the matched texts and codes of the category patterns,
\* and the standalone numbers
NoTexto ==
    [s \in Textos |->
        [categoria |-> {<<SubSeq(s, l[2], l[3]), SubSeq(s, l[3] - TamanhoCodigo + 1, l[3])>> :
                           l \in LugaresDeCategoria(s)},
         generico |-> {SubSeq(s, i, i + TamanhoCodigo - 1) : i \in LugaresGenericos(s)}]]

\* the pages the scanner has gone through without an extraction error
Escaneadas ==
    {p \in 0..(Len(doc) - 1) : <<"texto", p>> \in visitas \ falhas}

\* C2: for every scanned page, the entries of the page hold every match of every
\* category pattern on the page, and the entries of the generic pattern are the
\* page's standalone numbers when no category pattern matched on the page and
\* none otherwise, whatever was recorded for the other pages.
C2_CategoryBeforeGeneric ==
    pc \in {"scan_loop", "scan_ret"} =>
        \A p \in Escaneadas :
            LET t == NoTexto[doc[p + 1]]
                es == DaPagina(codigos, p)
                cat == DeCategoria(es)
                gen == DoGenerico(es)
            IN  /\ {<<cat[j].texto_completo, cat[j].codigo>> : j \in DOMAIN cat} = t.categoria
                /\ Len(cat) = Cardinality(t.categoria)
                /\ {gen[j].codigo : j \in DOMAIN gen} =
                       IF t.categoria = {} THEN t.generico ELSE {}
                /\ Len(gen) = IF t.categoria = {} THEN Cardinality(t.generico) ELSE 0
                /\ (gen # <<>>) <=> (t.categoria = {} /\ t.generico # {})

\* the fallback gave the entry of page 1 although page 0 has a category match,
\* and it gave none for page 0
C2_Witness ==
    /\ pc = "scan_ret"
    /\ doc = <<T_misto, T_ref>>
    /\ falhas = {}
    /\ Len(codigos) = 2
    /\ codigos[1].texto_completo # codigos[1].codigo
    /\ codigos[2].texto_completo = codigos[2].codigo

\* the iterated rows that were stored
Aceitas == {i \in DOMAIN lidos : lidos[i].destino = "aceita"}

CodigoLido(i) == Codigo(lidos[i].linha.referencia)

\* C6: when several accepted rows derive the same code, the mapping holds one
\* Price Record for the code, with the size, cost price and sale price of the
\* last such row in table order.
C6_LastWriteWins ==
    pc \in {"excel_loop", "excel_ret"} =>
        /\ DOMAIN produtos_dict = {CodigoLido(i) : i \in Aceitas}
        /\ \A i \in Aceitas :
              (\A j \in Aceitas : j > i => CodigoLido(j) # CodigoLido(i)) =>
                  produtos_dict[CodigoLido(i)] = Registro(lidos[i].linha, markup)

\* two accepted rows gave the code 84831, and the record is the second row's
C6_Witness ==
    /\ pc = "excel_ret"
    /\ planilha.linhas = <<L_camisa, L_camisa2>>
    /\ Aceitas = {1, 2}
    /\ DOMAIN produtos_dict = {<<"8", "4", "8", "3", "1">>}
    /\ produtos_dict[<<"8", "4", "8", "3", "1">>].preco_custo = 2550
    /\ produtos_dict[<<"8", "4", "8", "3", "1">>].tamanho = <<>>
    /\ Registro(L_camisa, markup) # Registro(L_camisa2, markup)

\* C7: the loader fails only if the price source cannot be opened or has fewer
\* than 3 columns; every source that opens with at least 3 columns (one with
\* no data row included) gives a mapping.
C7_FailsOnlyOnShape ==
    pc = "excecao" => (~planilha.abre \/ planilha.colunas < 3)

\* the page indices the rasterizer rendered
Rasterizadas == {p \in 0..(Len(doc) - 1) : <<"imagem", p>> \notin falhas}

\* the indices of the entries of codigos whose code is a key of the mapping
Precificados == {i \in DOMAIN codigos : codigos[i].codigo \in DOMAIN produtos_dict}

\* for each sample text: the entries the scanner makes of it as page 0
EntradasDoTexto == [s \in Textos |-> ScanPagina(<<>>, s, 0)]

NaPagina(cs, p) == [i \in DOMAIN cs |-> [cs[i] EXCEPT !.pagina = p, !.posicao_y = p]]

\* codigos holds the matches of every page whose text could be extracted
CodigosDoDocumento ==
    \A p \in 0..(Len(doc) - 1) :
        DaPagina(codigos, p) =
            IF <<"texto", p>> \in falhas THEN <<>>
            ELSE NaPagina(EntradasDoTexto[doc[p + 1]], p)

\* C3: when the run returns normally, the returned integer is the number of
\* Code Matches, counted with multiplicity over all scanned pages (the cover
\* and the pages whose rasterization failed included), whose code is a key of
\* the Price Record mapping.
C3_ReturnedCount ==
    pc = "fim" =>
        /\ retorno = Cardinality(Precificados)
        /\ CodigosDoDocumento

\* a run returned 4: two priced matches on the cover and two on page 1, whose
\* rasterization failed
C3_Witness ==
    /\ pc = "fim"
    /\ doc = <<T_dois, T_dois>>
    /\ falhas = {<<"imagem", 1>>}
    /\ \A i \in DOMAIN codigos : codigos[i].codigo \in DOMAIN produtos_dict
    /\ retorno = 4

\* C4: the page with index 0 is emitted with no band and no price text,
\* whatever Code Matches and Price Records exist for it; every emitted page
\* with index > 0 has the band painted.
C4_CoverExempt ==
    \A i \in DOMAIN pdf :
        IF pdf[i].pagina = 0
        THEN ~pdf[i].tarja /\ pdf[i].texto = <<>> /\ pdf[i].desenhos = <<>>
        ELSE pdf[i].tarja

\* an output document whose cover has priced matches and whose page 1 has a
\* band and a text
C4_Witness ==
    /\ saida # Nenhuma
    /\ saida = pdf
    /\ Len(saida) = 2
    /\ saida[1].pagina = 0
    /\ \E i \in Precificados : codigos[i].pagina = 0
    /\ saida[2].pagina = 1 /\ saida[2].tarja /\ saida[2].desenhos # <<>>

\* C5: whatever pages fail to rasterize, the failure does not end the run, and
\* the output document holds one page for each rasterized page index and none
\* for a failed one, in strictly ascending order of page index.
C5_PartialFailure ==
    /\ (\E p \in 0..(Len(doc) - 1) : <<"imagem", p>> \in falhas) =>
           erro # "Erro ao abrir o arquivo PDF"
    /\ pc \in {"raster_loop", "raster_ret"} => erro = Nenhuma
    /\ saida # Nenhuma =>
           /\ {saida[i].pagina : i \in DOMAIN saida} = Rasterizadas
           /\ \A i, j \in DOMAIN saida : i < j => saida[i].pagina < saida[j].pagina

\* page 1 failed to rasterize, pages 0 and 2 did not, and the run returned
\* with an output document of those two pages
C5_Witness ==
    /\ pc = "fim"
    /\ Len(doc) = 3
    /\ falhas = {<<"imagem", 1>>}
    /\ Len(saida) = 2
    /\ saida[1].pagina = 0
    /\ saida[2].pagina = 2

\* the integer that ends in 7 among the ten integers up to floor(v)
Round7(v) == CHOOSE r \in (Floor(v) - 9)..Floor(v) : r % 10 = 7

\* '<matched text> - R$ <round7(sale price)>' of entry i of codigos
LabelEsperado(i) ==
    codigos[i].texto_completo \o <<" ", "-", " ", "R", "$", " ">>
        \o IntToStr(Round7(produtos_dict[codigos[i].codigo].preco_venda))

\* the labels of the priced entries of page p, in the order of codigos
RECURSIVE LabelsEsperados(_, _)
LabelsEsperados(p, i) ==
    IF i > Len(codigos) THEN <<>>
    ELSE (IF codigos[i].pagina = p /\ i \in Precificados
          THEN <<LabelEsperado(i)>> ELSE <<>>)
         \o LabelsEsperados(p, i + 1)

\* C8: on every emitted page with index > 0 the labels laid out are those of
\* the Code Matches of the page whose code is in the Price Record mapping, in
\* scanner order, each '<matched text> - R$ <round7(sale price)>', joined into
\* the line that is drawn; a page with no such match has the band and no text.
C8_Labels ==
    pc \in {"comp_loop", "comp_ret", "fim"} =>
        \A i \in DOMAIN pdf :
            pdf[i].pagina > 0 =>
                LET ls == LabelsEsperados(pdf[i].pagina, 1)
                IN  /\ pdf[i].texto = Join(ls)
                    /\ pdf[i].modo = "multi_cell" =>
                           pdf[i].desenhos = <<[texto |-> Join(ls), dy |-> 0]>>
                    /\ ls = <<>> =>
                           pdf[i].tarja /\ pdf[i].modo = "sem_texto" /\ pdf[i].desenhos = <<>>
                    /\ ls # <<>> => pdf[i].modo # "sem_texto"

\* page 1 carries the two labels of its text in one line, in the order of the
\* patterns, and page 2 has matches but none with a price: a band and no text
C8_Witness ==
    /\ pc = "fim"
    /\ doc = <<T_ref, T_dois, T_ref>>
    /\ Len(saida) = 3
    /\ saida[2].modo = "multi_cell"
    /\ saida[2].texto = <<"C", "A", "M", "I", "S", "A", " ", "8", "4", "8", "3", "1",
                          " ", "-", " ", "R", "$", " ", "3", "7",
                          " ", " ", " ", "|", " ", " ", " ",
                          "B", "O", "N", "E", " ", "8", "2", "9", "6", "9",
                          " ", "-", " ", "R", "$", " ", "3", "7">>
    /\ DaPagina(codigos, 2) # <<>>
    /\ saida[3].tarja /\ saida[3].modo = "sem_texto"

NoRasterizer == {"raster_abrir", "raster_loop", "raster_ret"}

NoScanner == {"scan_abrir", "scan_loop", "scan_ret"}

NoLoader == {"excel_abrir", "excel_loop", "excel_ret"}

NoCompositor == {"comp_abrir", "comp_loop", "comp_ret"}

\* the rasterizer has gone through every page, and imagens holds the ones
\* that were rendered
ImagensCompletas ==
    /\ \A p \in 0..(Len(doc) - 1) : <<"imagem", p>> \in visitas
    /\ {imagens[i].pagina : i \in DOMAIN imagens} = Rasterizadas

\* the scanner has gone through every page
CodigosCompletos ==
    \A p \in 0..(Len(doc) - 1) : <<"texto", p>> \in visitas

\* the loader has opened the source and gone through every row under the header
MapeamentoCompleto ==
    /\ planilha.abre /\ planilha.colunas >= 3 /\ planilha.linhas # <<>>
    /\ df = <<>>
    /\ [i \in DOMAIN lidos |-> lidos[i].linha] =
          IF TemCabecalho(planilha.linhas) THEN Tail(planilha.linhas) ELSE planilha.linhas
    /\ DOMAIN produtos_dict = {CodigoLido(i) : i \in Aceitas}

ErrosAntesDoCompositor ==
    {"Erro ao abrir o arquivo PDF",
     "Erro ao abrir o arquivo PDF para extração de códigos",
     ErroExcel}

\* C9: the stages run in the order rasterizer, scanner, loader, compositor: a
\* stage starts only when the ones before it are through, so the compositor
\* starts only with the Code Match list and the Price Record mapping completely
\* built; when an earlier stage fails fatally the compositor is never started,
\* no output document is written and the exception reaches the caller.
C9_StageOrder ==
    /\ pc \in NoRasterizer => codigos = <<>> /\ lidos = <<>> /\ pdf = <<>>
    /\ pc \in NoScanner => ImagensCompletas /\ lidos = <<>> /\ pdf = <<>>
    /\ pc \in NoLoader => ImagensCompletas /\ CodigosCompletos /\ pdf = <<>>
    /\ pc \in NoCompositor \cup {"fim"} =>
           ImagensCompletas /\ CodigosCompletos /\ MapeamentoCompleto
    /\ pc = "comp_abrir" => CodigosDoDocumento
    /\ pc = "excecao" => ENABLED OrqExcept
    /\ pc \in {"excecao", "erro"} => erro # Nenhuma /\ saida = Nenhuma
    /\ erro \in ErrosAntesDoCompositor => pc \in {"excecao", "erro"} /\ pdf = <<>>
    /\ saida # Nenhuma => pc \in {"comp_ret", "fim"}

\* the compositor is at work on a second page with a list of three entries and
\* a mapping of two records, both complete
C9_Witness ==
    /\ pc = "comp_loop"
    /\ page_num = 1
    /\ doc = <<T_ref, T_dois>>
    /\ Len(codigos) = 3
    /\ Cardinality(DOMAIN produtos_dict) = 2
    /\ Len(lidos) = 2

\* the labels of a page that were drawn, one to a line
Desenhado(pg, l, i) ==
    \E k \in DOMAIN pg.desenhos :
        pg.desenhos[k] = [texto |-> l, dy |-> (i - 1) * 40]

\* C10: when the single-line draw fails, each label is drawn on its own line,
\* and a line whose draw fails does not keep the other labels of the page from
\* being drawn, nor does it end the run (no exception of the run is one of a
\* text draw).
C10_FallbackContinues ==
    /\ \A i \in DOMAIN pdf :
          pdf[i].modo = "alternativa" =>
              LET ls == LabelsEsperados(pdf[i].pagina, 1)
              IN  \A k \in DOMAIN ls : k # pdf[i].falhou => Desenhado(pdf[i], ls[k], k)
    /\ erro \in ErrosAntesDoCompositor \cup {ErroTarja, Nenhuma}

-----------------------------------------------------------------------------
(* C11: the keys of the mapping *)

\* C11: every key of the mapping built by ler_excel_precos is a non-empty
\* string of digits only, whatever reference cell the accepted row had
\* (a number of any sign or fraction, or a text).
C11_KeysAreDigits ==
    \A k \in DOMAIN produtos_dict : IsDigitStr(k)

-----------------------------------------------------------------------------
(* C12: the fractions given to the progress callback *)

Estagios == {"rasterizer", "scanner", "loader", "compositor"}

\* the loop positions of a document or an image list of the model: index p of
\* a total t
Posicoes == {pt \in (0..MaxPaginas) \X (1..MaxPaginas) : pt[1] < pt[2]}

\* the fractions a stage's expression yields over those positions
AlcanceRasterizer == {FracaoRasterizer(pt[1], pt[2]) : pt \in Posicoes}

AlcanceScanner == {FracaoScanner(pt[1], pt[2]) : pt \in Posicoes}

AlcanceCompositor == {FracaoCompositor(pt[1], pt[2]) : pt \in Posicoes}

Alcance(quem) ==
    CASE quem = "rasterizer" -> AlcanceRasterizer
      [] quem = "scanner" -> AlcanceScanner
      [] quem = "loader" -> {FracaoLoader}
      [] quem = "compositor" -> AlcanceCompositor

\* every fraction of A lies below every fraction of B, or the other way round
Separados(A, B) ==
    \/ \A f \in A, g \in B : Menor(f, g)
    \/ \A f \in A, g \in B : Menor(g, f)

ReportadasPor(quem) ==
    {progresso[i].fracao : i \in {j \in DOMAIN progresso : progresso[j].quem = quem}}

\* C12: every fraction given to the progress callback lies in [0, 1]; the
\* fractions a stage reports are those of its own expression, and the ranges
\* of the rasterizer, the scanner, the loader and the compositor are pairwise
\* disjoint (one lies wholly below the other), in the run and over every
\* document size of the model.
C12_ProgressRanges ==
    /\ \A i \in DOMAIN progresso :
          LET f == progresso[i].fracao
          IN  f.den > 0 /\ 0 <= f.num /\ f.num <= f.den
    /\ \A a \in Estagios : ReportadasPor(a) \subseteq Alcance(a)
    /\ \A a, b \in Estagios :
          a # b => /\ Separados(ReportadasPor(a), ReportadasPor(b))
                   /\ Separados(Alcance(a), Alcance(b))

\* a finished run in which the four stages reported, the rasterizer, the
\* scanner and the compositor more than once
C12_Witness ==
    /\ pc = "fim"
    /\ ReportadasPor("loader") # {}
    /\ \A a \in Estagios \ {"loader"} : Cardinality(ReportadasPor(a)) > 1

-----------------------------------------------------------------------------
(* C13: a page whose text extraction raises *)

\* the list the scanner builds of document d when no get_text raises: the
\* pages scanned in order, each on the list built so far
RECURSIVE ScanSemFalhas(_, _)
ScanSemFalhas(d, n) ==
    IF n = 0 THEN <<>>
    ELSE ScanPagina(ScanSemFalhas(d, n - 1), d[n], n - 1)

\* the entries of the pages of document d that are in P and below n, each page
\* scanned by itself
RECURSIVE PorPagina(_, _, _)
PorPagina(d, n, P) ==
    IF n = 0 THEN <<>>
    ELSE PorPagina(d, n - 1, P)
         \o (IF n - 1 \in P THEN NaPagina(EntradasDoTexto[d[n]], n - 1) ELSE <<>>)

\* in a scan where no page fails, the entries of a page do not depend on the
\* other pages
SemFalhasPorPagina ==
    \A d \in Documentos :
        ScanSemFalhas(d, Len(d)) = PorPagina(d, Len(d), 0..(Len(d) - 1))

\* C13: in extrair_codigos_produtos a page whose get_text raises contributes no
\* entry, the loop goes on through every page of the document, and the list
\* holds, in order, exactly the entries that a scan where no page fails makes
\* for the pages that did not fail; only a document that cannot be opened
\* makes the function raise.
C13_FailedPageSkipped ==
    /\ SemFalhasPorPagina
    /\ pc \in {"scan_loop", "scan_ret"} =>
          codigos = PorPagina(doc, Len(doc), Escaneadas)
    /\ pc = "scan_ret" => \A p \in 0..(Len(doc) - 1) : <<"texto", p>> \in visitas
    /\ pc = "excecao" => erro = ErroAbrirCodigos /\ visitas = {}

\* the scanner has returned; the middle page of three failed and its text
\* holds codes; the pages before and after it have their entries in the list
C13_Witness ==
    /\ pc = "scan_ret"
    /\ Len(doc) = 3
    /\ falhas = {<<"texto", 1>>}
    /\ EntradasDoTexto[doc[2]] # <<>>
    /\ DaPagina(codigos, 0) # <<>>
    /\ DaPagina(codigos, 1) = <<>>
    /\ DaPagina(codigos, 2) # <<>>

-----------------------------------------------------------------------------
(* C14: the markup law and the frame of the compositor *)

\* sale price == cost price * markup, for every Price Record of the mapping
LeiDoMarkup ==
    \A k \in DOMAIN produtos_dict :
        produtos_dict[k].preco_venda = produtos_dict[k].preco_custo * markup

\* C14: every Price Record of the mapping satisfies sale price == cost price *
\* markup in every state of the run, from the row's load to the end, and no
\* step of the compositor (the rounder is called inside its steps) nor the
\* final count changes the mapping.
C14_MarkupLawKept ==
    /\ []LeiDoMarkup
    /\ [][(pc \in NoCompositor) => UNCHANGED produtos_dict]_vars

\* the run has ended with a page that carries a label, and the mapping holds a
\* record whose sale price is not the rounded price of the label
C14_Witness ==
    /\ pc = "fim"
    /\ \E i \in DOMAIN saida : saida[i].desenhos # <<>>
    /\ \E k \in DOMAIN produtos_dict :
          /\ \E i \in DOMAIN codigos : codigos[i].codigo = k /\ codigos[i].pagina > 0
          /\ produtos_dict[k].preco_venda
                # EscalaVenda * arredondar_preco_para_terminar_em_7(produtos_dict[k].preco_venda)

-----------------------------------------------------------------------------
(* C15: the order of the fractions *)

\* C15: when processar_pdf_com_markup has returned normally, the fractions
\* given to the progress callback by the orchestrator and by the stages, in
\* call order, never decrease, and the last one is 1.0.
C15_ProgressMonotone ==
    pc = "fim" =>
        /\ \A i \in 1..(Len(progresso) - 1) :
              MenorIgual(progresso[i].fracao, progresso[i + 1].fracao)
        /\ progresso # <<>>
        /\ progresso[Len(progresso)].fracao = FracaoConcluido
====
